---- MODULE Spec2Model ----
(***************************************************************************)
(* Model of gora: the external-variable registry and selector              *)
(* (variables/variables.go) and the compile/scan orchestrator (gora.go).   *)
(***************************************************************************)
EXTENDS Integers, Sequences, FiniteSets, TLC

VARIABLES
    heap,       \* backing arrays of the []VariableType slices, by reference
    cvars,      \* Compiled.vars.list / v.list: reference into heap, 0 = nil slice
    dvars,      \* d.list of the selector d made by v.Copy(); 0 = d not made yet
    snap,       \* a slice held by the caller (from Variables() or List()); 0 = none
    snapOf,     \* where snap came from: "none", "v", "d" or "List"
    rules,      \* Compiled.rules: engine object id, 0 = nil
    scanner,    \* Compiled.scanner: engine object id, 0 = nil
    nobj,       \* number of engine objects (rule sets, scanners) created so far
    released,   \* engine objects destroyed so far, in order: <<kind, id>>
    op,         \* the last operation called
    args,       \* the arguments of the last operation
    ret,        \* what the last operation returned
    defs,       \* DefineVariable calls the acceptor received in the last operation
    hooks,      \* HandleValueError calls made in the last operation
    valued,     \* identifiers whose Valuer was called in the last operation
    val,        \* the value the last operation returned besides its error
    trace,      \* calls the last compile operation made to the OS and the engine
    sstate,     \* what the engine did last with the held scanner
    workers,    \* the scan workers: each one's own selector, acceptor and pass
    owner       \* the owner's setVariables call in progress on the original

vars == <<heap, cvars, dvars, snap, snapOf, rules, scanner, nobj, released,
          op, args, ret, defs, hooks, valued, val, trace, sstate, workers,
          owner>>

----------------------------------------------------------------------------
(* Bounds of the model. *)

\* longest candidate list handed to InitFileVariables / InitProcessVariables
MaxLen == 3
\* engine objects (rule sets and scanners) one run may create
MaxObj == 3
\* longest file path, in characters, a scan context hands to a routine
MaxPath == 4

----------------------------------------------------------------------------
(* variables.go: the registry. *)

VarOs == 1
VarOsLinux == 2
VarOsWindows == 3
VarOsDarwin == 4
VarTimeNow == 5
VarFilePath == 6
VarFileName == 7
VarFileExtension == 8
VarFileReadonly == 9
VarFileHidden == 10
VarFileSystem == 11
VarFileCompressed == 12
VarFileEncrypted == 13
VarFileModifiedTime == 14
VarFileAccessedTime == 15
VarFileChangedTime == 16
VarFileBirthTime == 17
VarProcessId == 18
VarProcessParentId == 19
VarProcessUserName == 20
VarProcessUserSid == 21
VarProcessSessionId == 22
VarProcessName == 23
VarProcessPath == 24
VarProcessCommandLine == 25
typeEnd == 26

MetaBool == 1
MetaInt == 2
MetaFloat == 4
MetaString == 8
MetaFile == 16
MetaProcess == 32
MetaFileProcess == MetaFile + MetaProcess

\* VariableType is a byte
VariableType == 0..255

\* MetaType is a byte whose bits 0..5 are in use
MetaType == 0..(2 * MetaProcess - 1)

RECURSIVE AndBits(_, _)
AndBits(a, b) ==
    IF a = 0 \/ b = 0 THEN 0
    ELSE (a % 2) * (b % 2) + 2 * AndBits(a \div 2, b \div 2)

AndTable == [a \in MetaType |-> [b \in MetaType |-> AndBits(a, b)]]

\* a & b on MetaType
BitAnd(a, b) == AndTable[a][b]

\* [typeEnd]string: index 0 keeps the zero value ""
varNames ==
    [v \in 0..(typeEnd - 1) |->
        CASE v = VarOs -> "os"
          [] v = VarOsLinux -> "os_linux"
          [] v = VarOsWindows -> "os_windows"
          [] v = VarOsDarwin -> "os_darwin"
          [] v = VarTimeNow -> "time_now"
          [] v = VarFilePath -> "file_path"
          [] v = VarFileName -> "file_name"
          [] v = VarFileExtension -> "file_extension"
          [] v = VarFileReadonly -> "file_readonly"
          [] v = VarFileHidden -> "file_hidden"
          [] v = VarFileSystem -> "file_system"
          [] v = VarFileCompressed -> "file_compressed"
          [] v = VarFileEncrypted -> "file_encrypted"
          [] v = VarFileModifiedTime -> "file_modified_time"
          [] v = VarFileAccessedTime -> "file_accessed_time"
          [] v = VarFileChangedTime -> "file_changed_time"
          [] v = VarFileBirthTime -> "file_birth_time"
          [] v = VarProcessId -> "process_id"
          [] v = VarProcessParentId -> "process_parent_id"
          [] v = VarProcessUserName -> "process_user_name"
          [] v = VarProcessUserSid -> "process_user_sid"
          [] v = VarProcessSessionId -> "process_session_id"
          [] v = VarProcessName -> "process_name"
          [] v = VarProcessPath -> "process_path"
          [] v = VarProcessCommandLine -> "process_command_line"
          [] OTHER -> ""]

\* [typeEnd]MetaType: index 0 keeps the zero value 0
varMetas ==
    [v \in 0..(typeEnd - 1) |->
        CASE v = VarOs -> MetaFileProcess + MetaString
          [] v = VarOsLinux -> MetaFileProcess + MetaBool
          [] v = VarOsWindows -> MetaFileProcess + MetaBool
          [] v = VarOsDarwin -> MetaFileProcess + MetaBool
          [] v = VarTimeNow -> MetaFileProcess + MetaInt
          [] v = VarFilePath -> MetaFileProcess + MetaString
          [] v = VarFileName -> MetaFileProcess + MetaString
          [] v = VarFileExtension -> MetaFileProcess + MetaString
          [] v = VarFileReadonly -> MetaFileProcess + MetaBool
          [] v = VarFileHidden -> MetaFileProcess + MetaBool
          [] v = VarFileSystem -> MetaFileProcess + MetaBool
          [] v = VarFileCompressed -> MetaFileProcess + MetaBool
          [] v = VarFileEncrypted -> MetaFileProcess + MetaBool
          [] v = VarFileModifiedTime -> MetaFileProcess + MetaInt
          [] v = VarFileAccessedTime -> MetaFileProcess + MetaInt
          [] v = VarFileChangedTime -> MetaFileProcess + MetaInt
          [] v = VarFileBirthTime -> MetaFileProcess + MetaInt
          [] v = VarProcessId -> MetaProcess + MetaInt
          [] v = VarProcessParentId -> MetaProcess + MetaInt
          [] v = VarProcessUserName -> MetaProcess + MetaString
          [] v = VarProcessUserSid -> MetaProcess + MetaString
          [] v = VarProcessSessionId -> MetaProcess + MetaInt
          [] v = VarProcessName -> MetaProcess + MetaString
          [] v = VarProcessPath -> MetaProcess + MetaString
          [] v = VarProcessCommandLine -> MetaProcess + MetaString
          [] OTHER -> 0]

\* the list a correct enumeration of the catalogue would give
ListAscending == [i \in 1..(typeEnd - 1) |-> i]

\* func List(): for v := range varNames[1:] appends the index v into the
\* re-sliced array, which starts at 0
List == [i \in 1..(Cardinality(DOMAIN varNames) - 1) |-> i - 1]

\* String() naming the values outside the registry
StringOrUnknown(v) == IF v < typeEnd THEN varNames[v] ELSE "unknown"

\* func (v VariableType) String()
String(v) == IF v < typeEnd THEN varNames[v] ELSE ""

\* Meta() giving the applicability bits only
MetaApplicabilityOnly(v) ==
    IF v < typeEnd THEN BitAnd(varMetas[v], MetaFileProcess) ELSE 0

\* func (v VariableType) Meta()
Meta(v) == IF v < typeEnd THEN varMetas[v] ELSE 0

----------------------------------------------------------------------------
(* variables.go: the selector. *)

RECURSIVE setVariablesLoop(_, _, _, _, _)
setVariablesLoop(vs, i, metaMask, list, vmap) ==
    IF i > Len(vs) THEN list
    ELSE LET vid == vs[i] IN
         IF vid \in vmap
         THEN setVariablesLoop(vs, i + 1, metaMask, list, vmap)
         ELSE IF BitAnd(Meta(vid), metaMask) # 0
              THEN setVariablesLoop(vs, i + 1, metaMask, Append(list, vid),
                                    vmap \cup {vid})
              ELSE setVariablesLoop(vs, i + 1, metaMask, list, vmap)

\* the filter without the vmap check
setVariablesNoDedup(vs, metaMask) ==
    SelectSeq(vs, LAMBDA vid : BitAnd(Meta(vid), metaMask) # 0)

\* func (vr *Variables) setVariables: the list vr.list holds afterwards
setVariables(vs, metaMask) == setVariablesLoop(vs, 1, metaMask, <<>>, {})

\* the slices that can be alive at once: v.list, d.list and the caller's slice
Holders == {"v", "d", "snap"}

Refs == 1..Cardinality(Holders)

\* the content of the slice behind reference r (0 is the nil slice)
ListOf(h, r) == IF r = 0 THEN <<>> ELSE h[r]

\* make(): a backing array no live slice uses
NewRef(live) == CHOOSE r \in Refs \ live : \A s \in Refs \ live : r <= s

\* garbage collection: arrays no slice refers to are gone
Collect(h, live) == [r \in Refs |-> IF r \in live THEN h[r] ELSE <<>>]

\* Variables() handing out vr.list itself instead of a copy of it
VariablesShared(h, r, live) == [ref |-> r, heap |-> h]

\* func (vr *Variables) Variables(): make + copy; live are the other slices
Variables(h, r, live) ==
    LET list == NewRef(live)
    IN [ref |-> list, heap |-> [h EXCEPT ![list] = ListOf(h, r)]]

\* Copy() giving a selector whose list is vr.list itself
CopyAliasing(h, r, live) == [ref |-> r, heap |-> h]

\* func (vr *Variables) Copy(): &Variables{list: vr.Variables()}
Copy(h, r, live) == Variables(h, r, live)

----------------------------------------------------------------------------
(* variables.go: values, acceptors and the two define passes. *)

NilValue == "<nil>"
NoError == "nil"
\* the error a Valuer returns
ValueError == "value error"
\* the error the engine returns when it rejects a definition
DefineError == "define rejected"
UnknownVariable == "unknown variable"
HookError == "hook error"

\* interface{} values, written with their Go type
ZeroString == "string:"
ZeroInt == "int64:0"
ZeroBool == "bool:false"
ZeroFloat == "float64:0"

ValuesOfMeta(meta) ==
    IF BitAnd(meta, MetaString) # 0 THEN {ZeroString, "string:x"}
    ELSE IF BitAnd(meta, MetaInt) # 0 THEN {ZeroInt, "int64:7"}
    ELSE IF BitAnd(meta, MetaBool) # 0 THEN {ZeroBool, "bool:true"}
    ELSE {ZeroFloat, "float64:1"}

\* a VariableDefiner (yara compiler or scanner): it logs the calls it receives
\* and rejects its rejectAt-th call (0: it rejects none)
NewDefiner(id, rejectAt) == [id |-> id, log |-> <<>>, rejectAt |-> rejectAt]

\* VariableDefiner.DefineVariable(name, value)
DefineVariable(def, name, value) ==
    [def |-> [def EXCEPT !.log = Append(@, <<name, value>>)],
     err |-> IF Len(def.log) + 1 = def.rejectAt THEN DefineError ELSE NoError]

\* defineDefaultValue testing the type bits in the order bool, int, string
defineDefaultValueBoolFirst(vid, def) ==
    LET meta == Meta(vid)
    IN  IF BitAnd(meta, MetaBool + MetaInt) # 0
        THEN DefineVariable(def, String(vid), ZeroBool)
        ELSE IF BitAnd(meta, MetaString) # 0
        THEN DefineVariable(def, String(vid), ZeroString)
        ELSE [def |-> def, err |-> UnknownVariable]

\* func defineDefaultValue(vid, def)
defineDefaultValue(vid, def) ==
    LET meta == Meta(vid)
    IN  IF BitAnd(meta, MetaString) # 0
        THEN DefineVariable(def, String(vid), ZeroString)
        ELSE IF BitAnd(meta, MetaInt) # 0
        THEN DefineVariable(def, String(vid), ZeroInt)
        ELSE IF BitAnd(meta, MetaBool) # 0
        THEN DefineVariable(def, String(vid), ZeroBool)
        ELSE IF BitAnd(meta, MetaFloat) # 0
        THEN DefineVariable(def, String(vid), ZeroFloat)
        ELSE [def |-> def, err |-> UnknownVariable]

RECURSIVE DefineCompilerVariablesLoop(_, _, _)
DefineCompilerVariablesLoop(list, i, compiler) ==
    IF i > Len(list) THEN [def |-> compiler, err |-> NoError]
    ELSE LET r == defineDefaultValue(list[i], compiler)
         IN  IF r.err # NoError THEN r
             ELSE DefineCompilerVariablesLoop(list, i + 1, r.def)

\* func (vr *Variables) DefineCompilerVariables(compiler)
DefineCompilerVariables(list, compiler) ==
    DefineCompilerVariablesLoop(list, 1, compiler)

\* what a Valuer can return: (value, nil), (nil, nil), or an error with a nil
\* or a zero value
ValueOk(vid) == {[value |-> v, err |-> NoError] : v \in ValuesOfMeta(Meta(vid))}
ValueNil == {[value |-> NilValue, err |-> NoError]}
ValueFail(vid) ==
    {[value |-> v, err |-> ValueError] :
        v \in {NilValue} \cup {w \in ValuesOfMeta(Meta(vid)) : w \in
                 {ZeroString, ZeroInt, ZeroBool, ZeroFloat}}}

\* var Valuers: the outcomes of each registered routine. The routines kept in
\* platform files can return anything the Valuer interface allows.
Valuers(vid) ==
    CASE vid \in {VarOs, VarOsLinux, VarOsWindows, VarOsDarwin} -> ValueOk(vid)
      [] vid = VarTimeNow -> ValueOk(vid) \cup ValueFail(vid)
      [] vid \in {VarFilePath, VarFileName, VarFileExtension, VarProcessPath} ->
            ValueOk(vid)
      [] vid = VarFileReadonly -> ValueOk(vid) \cup ValueNil
      [] vid = VarProcessId -> ValueOk(vid)
      [] OTHER -> ValueOk(vid) \cup ValueNil \cup ValueFail(vid)

\* the ScanContexts a scan of the identifiers of list can meet: what each
\* routine returns, and the failed identifiers for which HandleValueError
\* returns an error
ScanContexts(list) ==
    LET ids == {list[i] : i \in DOMAIN list}
        outs == UNION {Valuers(v) : v \in ids}
        fs == {g \in [ids -> outs] : \A v \in ids : g[v] \in Valuers(v)}
    IN  UNION {{[value |-> f, fatal |-> s] :
                   s \in SUBSET {v \in ids : f[v].err # NoError}} : f \in fs}

\* ScanContext.HandleValueError(scanner, vid, err)
HandleValueError(sCtx, vid) == IF vid \in sCtx.fatal THEN HookError ELSE NoError

\* the acceptor's error returned alone
WrappedBare(err, e) == e

\* fmt.Errorf("%s: %w", err, e)
Wrapped(err, e) ==
    IF e = DefineError THEN "value error: define rejected"
    ELSE "value error: unknown variable"

\* the nil test left out: if err != nil
NeedsDefaultOnError(out) == out.err # NoError

\* if err != nil || value == nil
NeedsDefault(out) == out.err # NoError \/ out.value = NilValue

\* the hook called for every defaulted identifier
ShouldHandleAlways(out) == TRUE

\* if err != nil, after the default was defined
ShouldHandle(out) == out.err # NoError

\* the hook called before the default is defined
HookCallEarly(def, vid, err) ==
    [def |-> def.id, vid |-> vid, err |-> err, ndefs |-> Len(def.log) - 1]

\* the hook's error ignored
HookFatalNever(e) == FALSE

\* if err = sCtx.HandleValueError(scanner, vid, err); err != nil { return err }
HookFatal(e) == e # NoError

\* one HandleValueError call, as the hook sees it
HookCall(def, vid, err) ==
    [def |-> def.id, vid |-> vid, err |-> err, ndefs |-> Len(def.log)]

RECURSIVE DefineScannerVariablesLoop(_, _, _, _, _, _)
DefineScannerVariablesLoop(list, i, sCtx, sc, hk, vl) ==
    IF i > Len(list)
    THEN [def |-> sc, hooks |-> hk, valued |-> vl, err |-> NoError]
    ELSE LET vid == list[i]
             out == sCtx.value[vid]
             v == Append(vl, vid)
         IN  IF NeedsDefault(out)
             THEN LET d == defineDefaultValue(vid, sc)
                  IN  IF d.err # NoError
                      THEN [def |-> d.def, hooks |-> hk, valued |-> v,
                            err |-> IF out.err # NoError
                                    THEN Wrapped(out.err, d.err) ELSE d.err]
                      ELSE IF ShouldHandle(out)
                      THEN LET h == Append(hk, HookCall(d.def, vid, out.err))
                           IN  IF HookFatal(HandleValueError(sCtx, vid))
                               THEN [def |-> d.def, hooks |-> h, valued |-> v,
                                     err |-> HookError]
                               ELSE DefineScannerVariablesLoop(list, i + 1, sCtx,
                                                               d.def, h, v)
                      ELSE DefineScannerVariablesLoop(list, i + 1, sCtx, d.def,
                                                      hk, v)
             ELSE LET d == DefineVariable(sc, String(vid), out.value)
                  IN  IF d.err # NoError
                      THEN [def |-> d.def, hooks |-> hk, valued |-> v,
                            err |-> d.err]
                      ELSE DefineScannerVariablesLoop(list, i + 1, sCtx, d.def,
                                                      hk, v)

\* func (vr *Variables) DefineScannerVariables(sCtx, scanner)
DefineScannerVariables(list, sCtx, sc) ==
    DefineScannerVariablesLoop(list, 1, sCtx, sc, <<>>, <<>>)

----------------------------------------------------------------------------
(* The state after NewCompiled() / new(Variables), and the calls on a        *)
(* Variables value.                                                          *)

NoScanContext == [value |-> <<>>, fatal |-> {}]

\* the scanner threads, each with its own *Variables from Copy() and its own
\* acceptor
Workers == {"w1", "w2"}

\* a worker that holds no selector yet. sel: its list (reference into heap);
\* at: the original's list when Copy() ran; pos: the index its range loop is
\* at; def, hooks, err: its acceptor, its hook calls and what the pass
\* returned; foreign: it read an array another selector referred to
NoWorker ==
    [pc |-> "none", sel |-> 0, at |-> <<>>, pos |-> 0, sctx |-> NoScanContext,
     rejectAt |-> 0, def |-> NewDefiner("none", 0), hooks |-> <<>>,
     err |-> NoError, foreign |-> FALSE]

\* no setVariables call is running on the original
IdleOwner == [pc |-> "idle", vs |-> <<>>, i |-> 0, metaMask |-> 0, vmap |-> {}]

NoArgs ==
    [on |-> "v", target |-> 0, list |-> <<>>, incl |-> FALSE, rejectAt |-> 0,
     sctx |-> NoScanContext, vid |-> 0, path |-> <<>>, src |-> <<>>]

Init ==
    /\ heap = [r \in Refs |-> <<>>]
    /\ cvars = 0
    /\ dvars = 0
    /\ snap = 0
    /\ snapOf = "none"
    /\ rules = 0
    /\ scanner = 0
    /\ nobj = 0
    /\ released = <<>>
    /\ op = "new"
    /\ args = NoArgs
    /\ ret = NoError
    /\ defs = <<>>
    /\ hooks = <<>>
    /\ valued = <<>>
    /\ val = NilValue
    /\ trace = <<>>
    /\ sstate = "none"
    /\ workers = [w \in Workers |-> NoWorker]
    /\ owner = IdleOwner

\* vr.setVariables(vs, metaMask) on the selector `on` ("v" or "d")
InitVariables(name, on, vs, metaMask) ==
    /\ on = "d" => dvars # 0
    /\ LET others == ({snap} \cup (IF on = "v" THEN {dvars} ELSE {cvars})) \ {0}
           r == NewRef(others)
       IN  /\ heap' = Collect([heap EXCEPT ![r] = setVariables(vs, metaMask)],
                              others \cup {r})
           /\ cvars' = IF on = "v" THEN r ELSE cvars
           /\ dvars' = IF on = "d" THEN r ELSE dvars
    /\ op' = name
    /\ args' = [NoArgs EXCEPT !.on = on, !.target = metaMask, !.list = vs]
    /\ ret' = NoError
    /\ defs' = <<>>
    /\ hooks' = <<>>
    /\ valued' = <<>>
    /\ val' = NilValue
    /\ UNCHANGED <<workers, owner>>
    /\ trace' = <<>>
    /\ sstate' = sstate
    /\ UNCHANGED <<snap, snapOf, rules, scanner, nobj, released>>

\* func (vr *Variables) InitFileVariables(vars)
InitFileVariables(on, vs) == InitVariables("InitFileVariables", on, vs, MetaFile)

\* func (vr *Variables) InitProcessVariables(vars)
InitProcessVariables(on, vs) ==
    InitVariables("InitProcessVariables", on, vs, MetaProcess)

\* list := variables.List(): the caller holds a fresh slice
CallList ==
    LET others == {cvars, dvars} \ {0}
        r == NewRef(others)
    IN  /\ heap' = Collect([heap EXCEPT ![r] = List], others \cup {r})
        /\ snap' = r
        /\ snapOf' = "List"
        /\ op' = "List"
        /\ args' = NoArgs
        /\ ret' = NoError
        /\ defs' = <<>>
        /\ hooks' = <<>>
        /\ valued' = <<>>
        /\ val' = NilValue
        /\ UNCHANGED <<workers, owner>>
        /\ trace' = <<>>
        /\ sstate' = sstate
        /\ UNCHANGED <<cvars, dvars, rules, scanner, nobj, released>>

\* v.DefineCompilerVariables(compiler) with a compiler rejecting its
\* rejectAt-th definition
CallDefineCompilerVariables(rejectAt) ==
    LET r == DefineCompilerVariables(ListOf(heap, cvars),
                                     NewDefiner("compiler", rejectAt))
    IN  /\ op' = "DefineCompilerVariables"
        /\ args' = [NoArgs EXCEPT !.rejectAt = rejectAt]
        /\ ret' = r.err
        /\ defs' = r.def.log
        /\ hooks' = <<>>
        /\ valued' = <<>>
        /\ val' = NilValue
        /\ UNCHANGED <<workers, owner>>
        /\ trace' = <<>>
        /\ sstate' = sstate
        /\ UNCHANGED <<heap, cvars, dvars, snap, snapOf, rules, scanner, nobj,
                       released>>

\* defineDefaultValue(vid, def) with an acceptor rejecting its rejectAt-th
\* definition
CallDefineDefaultValue(vid, rejectAt) ==
    LET r == defineDefaultValue(vid, NewDefiner("compiler", rejectAt))
    IN  /\ op' = "defineDefaultValue"
        /\ args' = [NoArgs EXCEPT !.rejectAt = rejectAt, !.vid = vid]
        /\ ret' = r.err
        /\ defs' = r.def.log
        /\ hooks' = <<>>
        /\ valued' = <<>>
        /\ val' = NilValue
        /\ UNCHANGED <<workers, owner>>
        /\ trace' = <<>>
        /\ sstate' = sstate
        /\ UNCHANGED <<heap, cvars, dvars, snap, snapOf, rules, scanner, nobj,
                       released>>

\* v.DefineScannerVariables(sCtx, scanner) with a scanner rejecting its
\* rejectAt-th definition
CallDefineScannerVariables(sCtx, rejectAt) ==
    LET r == DefineScannerVariables(ListOf(heap, cvars), sCtx,
                                    NewDefiner("scanner", rejectAt))
    IN  /\ op' = "DefineScannerVariables"
        /\ args' = [NoArgs EXCEPT !.rejectAt = rejectAt, !.sctx = sCtx]
        /\ ret' = r.err
        /\ defs' = r.def.log
        /\ hooks' = r.hooks
        /\ valued' = r.valued
        /\ val' = NilValue
        /\ UNCHANGED <<workers, owner>>
        /\ trace' = <<>>
        /\ sstate' = sstate
        /\ UNCHANGED <<heap, cvars, dvars, snap, snapOf, rules, scanner, nobj,
                       released>>

----------------------------------------------------------------------------
(* SpecSel: building the selector from every short candidate list. *)

\* identifiers a candidate list is drawn from: the reserved 0, a valid one of
\* each applicability, and typeEnd, which is out of range
CandIds == {0, VarOs, VarProcessId, typeEnd}

BoundedSeq(S, n) == UNION {[1..k -> S] : k \in 0..n}

\* the short lists, and the list the compile operations pass on an include
CandLists == BoundedSeq(CandIds, MaxLen) \cup {List}

NextSel ==
    \/ \E vs \in CandLists : InitFileVariables("v", vs)
    \/ \E vs \in CandLists : InitProcessVariables("v", vs)

SpecSel == Init /\ [][NextSel]_vars

----------------------------------------------------------------------------
(* SpecDefine: the two define passes over a selector. *)

\* candidate lists that give selectors of every value type, with routines
\* that can fail, return nil, or neither
DefineLists ==
    { <<>>,
      <<VarProcessUserName, VarProcessId, VarFileReadonly>>,
      <<VarProcessId, VarProcessUserName, VarFileReadonly>>,
      <<VarFileHidden, VarTimeNow>>,
      <<VarFileReadonly, VarProcessUserName>> }

\* identifiers defineDefaultValue is called with: one of each registered
\* type, the reserved 0 and the first unregistered value
DefaultIds == {0, VarOs, VarTimeNow, VarFileHidden, typeEnd}

NextDefine ==
    \/ \E vid \in DefaultIds : \E k \in 0..1 : CallDefineDefaultValue(vid, k)
    \/ \E vs \in DefineLists : InitFileVariables("v", vs)
    \/ \E vs \in DefineLists : InitProcessVariables("v", vs)
    \/ \E k \in 0..Len(ListOf(heap, cvars)) : CallDefineCompilerVariables(k)
    \/ \E sCtx \in ScanContexts(ListOf(heap, cvars)) :
          \E k \in 0..Len(ListOf(heap, cvars)) :
              CallDefineScannerVariables(sCtx, k)

SpecDefine == Init /\ [][NextDefine]_vars

----------------------------------------------------------------------------
(* SpecCopy: a selector v, its copy d, and slices in the caller's hands. *)

\* d := v.Copy()
CallCopy ==
    LET others == {cvars, snap} \ {0}
        r == Copy(heap, cvars, others)
    IN  /\ dvars' = r.ref
        /\ heap' = Collect(r.heap, others \cup ({r.ref} \ {0}))
        /\ op' = "Copy"
        /\ args' = NoArgs
        /\ ret' = NoError
        /\ defs' = <<>>
        /\ hooks' = <<>>
        /\ valued' = <<>>
        /\ val' = NilValue
        /\ UNCHANGED <<workers, owner>>
        /\ trace' = <<>>
        /\ sstate' = sstate
        /\ UNCHANGED <<cvars, snap, snapOf, rules, scanner, nobj, released>>

\* list := v.Variables() or list := d.Variables()
CallVariables(on) ==
    /\ on = "d" => dvars # 0
    /\ LET others == {cvars, dvars} \ {0}
           r == Variables(heap, IF on = "v" THEN cvars ELSE dvars, others)
       IN  /\ snap' = r.ref
           /\ heap' = Collect(r.heap, others \cup ({r.ref} \ {0}))
    /\ snapOf' = on
    /\ op' = "Variables"
    /\ args' = [NoArgs EXCEPT !.on = on]
    /\ ret' = NoError
    /\ defs' = <<>>
    /\ hooks' = <<>>
    /\ valued' = <<>>
    /\ val' = NilValue
    /\ UNCHANGED <<workers, owner>>
    /\ trace' = <<>>
    /\ sstate' = sstate
    /\ UNCHANGED <<cvars, dvars, rules, scanner, nobj, released>>

\* list[i-1] = x on the slice the caller holds
MutateSlice(i, x) ==
    /\ snap # 0
    /\ i \in DOMAIN heap[snap]
    /\ heap' = [heap EXCEPT ![snap][i] = x]
    /\ op' = "MutateSlice"
    /\ args' = NoArgs
    /\ ret' = NoError
    /\ defs' = <<>>
    /\ hooks' = <<>>
    /\ valued' = <<>>
    /\ val' = NilValue
    /\ UNCHANGED <<workers, owner>>
    /\ trace' = <<>>
    /\ sstate' = sstate
    /\ UNCHANGED <<cvars, dvars, snap, snapOf, rules, scanner, nobj, released>>

CopyLists == { <<>>, <<VarOs>>, <<VarProcessId, VarOs>> }

\* what the caller writes into a slice
MutIds == {0, VarFileName}

NextCopy ==
    \/ \E on \in {"v", "d"} : \E vs \in CopyLists : InitFileVariables(on, vs)
    \/ \E on \in {"v", "d"} : \E vs \in CopyLists : InitProcessVariables(on, vs)
    \/ CallCopy
    \/ \E on \in {"v", "d"} : CallVariables(on)
    \/ CallList
    \/ \E i \in 1..MaxLen : \E x \in MutIds : MutateSlice(i, x)

SpecCopy == Init /\ [][NextCopy]_vars

----------------------------------------------------------------------------
(* variables.go: the file path routines.  A string is the sequence of its   *)
(* characters; paths are cleaned the way filepath.Clean does with "/" as    *)
(* the separator.                                                           *)

Dot == "."
Sep == "/"

\* the characters paths are written with
Chars == {Dot, Sep, "a", "b"}

\* strings.HasPrefix(s, ".")
HasPrefixDot(s) == Len(s) > 0 /\ s[1] = Dot

\* strings.Count(s, ".")
CountDot(s) == Cardinality({i \in DOMAIN s : s[i] = Dot})

\* strings.TrimPrefix(s, ".")
TrimPrefixDot(s) == IF HasPrefixDot(s) THEN SubSeq(s, 2, Len(s)) ELSE s

\* the elements of a path between its separators
RECURSIVE Elements(_, _, _)
Elements(path, i, cur) ==
    IF i > Len(path) THEN <<cur>>
    ELSE IF path[i] = Sep THEN <<cur>> \o Elements(path, i + 1, <<>>)
    ELSE Elements(path, i + 1, Append(cur, path[i]))

\* filepath.Clean on the elements: empty and "." elements go, ".." takes the
\* element before it away, or goes itself at the root
RECURSIVE CleanElements(_, _, _, _)
CleanElements(els, i, out, rooted) ==
    IF i > Len(els) THEN out
    ELSE IF els[i] = <<>> \/ els[i] = <<Dot>>
    THEN CleanElements(els, i + 1, out, rooted)
    ELSE IF els[i] = <<Dot, Dot>>
    THEN IF Len(out) > 0 /\ out[Len(out)] # <<Dot, Dot>>
         THEN CleanElements(els, i + 1, SubSeq(out, 1, Len(out) - 1), rooted)
         ELSE IF rooted THEN CleanElements(els, i + 1, out, rooted)
         ELSE CleanElements(els, i + 1, Append(out, els[i]), rooted)
    ELSE CleanElements(els, i + 1, Append(out, els[i]), rooted)

RECURSIVE Join(_, _)
Join(els, i) ==
    IF i > Len(els) THEN <<>>
    ELSE IF i = Len(els) THEN els[i]
    ELSE els[i] \o <<Sep>> \o Join(els, i + 1)

\* filepath.Clean(path)
Clean(path) ==
    IF path = <<>> THEN <<Dot>>
    ELSE LET rooted == path[1] = Sep
             out == Join(CleanElements(Elements(path, 1, <<>>), 1, <<>>, rooted), 1)
         IN  IF rooted THEN <<Sep>> \o out
             ELSE IF out = <<>> THEN <<Dot>> ELSE out

\* filepath.Ext(path): from the last dot of the last element on
RECURSIVE Ext(_, _)
Ext(path, i) ==
    IF i < 1 \/ path[i] = Sep THEN <<>>
    ELSE IF path[i] = Dot THEN SubSeq(path, i, Len(path))
    ELSE Ext(path, i - 1)

\* func varFilePathFunc(sCtx), for a context whose FilePath() is filePath
varFilePathFunc(filePath) ==
    IF filePath = <<>> THEN <<>> ELSE Clean(filePath)

\* strings.HasPrefix(path, ".") && strings.Count(path, ".") == 1
IsDotfile(path) == HasPrefixDot(path) /\ CountDot(path) = 1

\* func varFileExtensionFunc(sCtx), for a context whose FilePath() is filePath
varFileExtensionFunc(filePath) ==
    LET path == varFilePathFunc(filePath)
    IN  IF path = <<>> THEN path
        ELSE IF IsDotfile(path) THEN <<>>
        ELSE TrimPrefixDot(Ext(path, Len(path)))

----------------------------------------------------------------------------
(* gora.go: the compile operations.  A compile operation is a function of   *)
(* the instance c = [rules, list], its arguments, what the variable parser  *)
(* reports and where the engine fails; it gives the return value, the       *)
(* selector and rule set the instance holds afterwards, and the definitions *)
(* the compiler received.                                                   *)

ScanFile == 0
ScanProcess == 1

ErrAlreadyCompiled == "already compiled"

\* the guard without effect
alreadyCompiledNever(c) == FALSE

\* if c.rules != nil { return ErrAlreadyCompiled }
alreadyCompiled(c) == c.rules # 0

\* a compile operation that returns err before it touches the instance
Untouched(c, err) ==
    [ret |-> err, list |-> c.list, set |-> FALSE, rules |-> "keep", defs |-> <<>>,
     trace |-> <<>>]

\* a failure return that stores a rule set in the instance
FailedHoldingRules(c, err, tr) ==
    [Untouched(c, err) EXCEPT !.trace = tr, !.rules = "new"]

\* the same after the calls tr were made
Failed(c, err, tr) == [Untouched(c, err) EXCEPT !.trace = tr]

\* func (c *Compiled) initVariables(target, vars)
initVariables(c, target, vs) ==
    CASE target = ScanProcess ->
            [err |-> NoError, set |-> TRUE, list |-> setVariables(vs, MetaProcess)]
      [] target = ScanFile ->
            [err |-> NoError, set |-> TRUE, list |-> setVariables(vs, MetaFile)]
      [] OTHER ->
            [err |-> "invalid scan target", set |-> FALSE, list |-> c.list]

\* variables.Parser after the sources srcs were parsed: Variables() gives the
\* identifiers they reference (refs; none when nothing was parsed)
ParserVariables(srcs, refs) == IF srcs = <<>> THEN <<>> ELSE refs

\* len(parser.Includes()) > 0 after some source
ParserIncludes(srcs) == \E i \in DOMAIN srcs : srcs[i].incl

\* one call per element of srcs
Each(name, srcs) == [i \in DOMAIN srcs |-> <<name, srcs[i]>>]

\* the DefineVariable calls a compiler logged
Defines(log) == [i \in DOMAIN log |-> <<"DefineVariable", log[i][1], log[i][2]>>]

\* the rule sources added before the variables are defined
StepsAddFirst(parsed, defined, added) == parsed \o added \o defined

\* the calls of a compile operation in the order its statements make them
Steps(parsed, defined, added) == parsed \o defined \o added

\* func (c *Compiled) CompileStrings(target, ruleNs)
CompileStrings(c, target, ruleNs, refs, fail) ==
    IF alreadyCompiled(c) THEN Untouched(c, ErrAlreadyCompiled)
    ELSE IF fail = "NewCompiler"
    THEN Failed(c, "yara compiler error", << <<"NewCompiler">> >>)
    ELSE IF fail = "Parse" /\ ruleNs # <<>>
    THEN Failed(c, "variable parser error",
                << <<"NewCompiler">>, <<"Parse", ruleNs[1]>> >>)
    ELSE LET fallbackAllVars == ParserIncludes(ruleNs)
             vs == IF fallbackAllVars THEN List ELSE ParserVariables(ruleNs, refs)
             iv == initVariables(c, target, vs)
             dc == DefineCompilerVariables(
                       iv.list,
                       NewDefiner("compiler", IF fail = "Define" THEN 1 ELSE 0))
             parsed == << <<"NewCompiler">> >> \o Each("Parse", ruleNs)
             defined == Defines(dc.def.log)
         IN  IF iv.err # NoError THEN Failed(c, iv.err, parsed)
             ELSE IF dc.err # NoError
             THEN [ret |-> "compiler define variable error", list |-> iv.list,
                   set |-> TRUE, rules |-> "keep", defs |-> dc.def.log,
                   trace |-> Steps(parsed, defined, <<>>)]
             ELSE IF fail = "Add" /\ ruleNs # <<>>
             THEN [ret |-> "compiler add rule error", list |-> iv.list,
                   set |-> TRUE, rules |-> "keep", defs |-> dc.def.log,
                   trace |-> Steps(parsed, defined,
                                   << <<"AddString", ruleNs[1]>> >>)]
             ELSE IF fail = "GetRules"
             THEN [ret |-> "compiler get rules error", list |-> iv.list,
                   set |-> TRUE, rules |-> "nil", defs |-> dc.def.log,
                   trace |-> Steps(parsed, defined,
                                   Each("AddString", ruleNs)
                                       \o << <<"GetRules">> >>)]
             ELSE [ret |-> NoError, list |-> iv.list, set |-> TRUE,
                   rules |-> "new", defs |-> dc.def.log,
                   trace |-> Steps(parsed, defined,
                                   Each("AddString", ruleNs)
                                       \o << <<"GetRules">> >>)]

\* func (c *Compiled) CompileString(target, rule, namespace)
CompileString(c, target, rule, refs, fail) ==
    CompileStrings(c, target, <<rule>>, refs, fail)

\* the loop of CompileFiles over paths: it opens each path, skips what is not
\* a regular file and parses the rest
RECURSIVE openFiles(_, _, _, _, _)
openFiles(paths, i, files, fail, tr) ==
    IF i > Len(paths) THEN [err |-> NoError, files |-> files, trace |-> tr]
    ELSE LET opened == Append(tr, <<"Open", paths[i]>>)
         IN  IF paths[i].kind = "missing"
             THEN [err |-> "open error", files |-> files, trace |-> opened]
             ELSE IF paths[i].kind # "regular"
             THEN openFiles(paths, i + 1, files, fail, opened)
             ELSE IF fail = "Parse"
             THEN [err |-> "variable parser error",
                   files |-> Append(files, paths[i]),
                   trace |-> Append(opened, <<"Parse", paths[i]>>)]
             ELSE openFiles(paths, i + 1, Append(files, paths[i]), fail,
                            Append(opened, <<"Parse", paths[i]>>))

\* func compileFiles(compiler, files, filenameNS): the error it returns and
\* the calls it makes
compileFiles(files, fail) ==
    IF fail = "Add" /\ files # <<>>
    THEN [err |-> "compiler add rule error",
          trace |-> << <<"AddFile", files[1]>> >>]
    ELSE [err |-> IF fail = "GetRules" THEN "compiler get rules error"
                  ELSE NoError,
          trace |-> Each("AddFile", files) \o << <<"GetRules">> >>]

\* func (c *Compiled) CompileFiles(target, filenameNS, paths...)
CompileFiles(c, target, paths, refs, fail) ==
    IF alreadyCompiled(c) THEN Untouched(c, ErrAlreadyCompiled)
    ELSE IF fail = "NewCompiler"
    THEN Failed(c, "compiler error",
                << <<"CompileFiles", paths>>, <<"NewCompiler">> >>)
    ELSE LET opened == openFiles(paths, 1, <<>>, fail,
                                 << <<"CompileFiles", paths>>, <<"NewCompiler">> >>)
             fallbackAllVars == ParserIncludes(opened.files)
             vs == IF fallbackAllVars THEN List
                   ELSE ParserVariables(opened.files, refs)
             iv == initVariables(c, target, vs)
             dc == DefineCompilerVariables(
                       iv.list,
                       NewDefiner("compiler", IF fail = "Define" THEN 1 ELSE 0))
             cf == compileFiles(opened.files, fail)
         IN  IF opened.err # NoError THEN Failed(c, opened.err, opened.trace)
             ELSE IF iv.err # NoError THEN Failed(c, iv.err, opened.trace)
             ELSE IF dc.err # NoError
             THEN [ret |-> "compiler define variable error", list |-> iv.list,
                   set |-> TRUE, rules |-> "keep", defs |-> dc.def.log,
                   trace |-> Steps(opened.trace, Defines(dc.def.log), <<>>)]
             ELSE [ret |-> cf.err, list |-> iv.list, set |-> TRUE,
                   rules |-> IF cf.err = NoError THEN "new" ELSE "nil",
                   defs |-> dc.def.log,
                   trace |-> Steps(opened.trace, Defines(dc.def.log), cf.trace)]

\* ".yar" and ".yara" compared letter by letter
IsRuleExtExact(ext) == ext = ".yar" \/ ext = ".yara"

\* strings.EqualFold on the extensions met here
ToLower(ext) ==
    CASE ext = ".YARA" -> ".yara"
      [] ext = ".Yar" -> ".yar"
      [] OTHER -> ext

\* strings.EqualFold(ext, ".yar") || strings.EqualFold(ext, ".yara")
IsRuleExt(ext) == ToLower(ext) = ".yar" \/ ToLower(ext) = ".yara"

\* func (c *Compiled) CompileDir(target, filenameNS, dir)
CompileDir(c, target, dir, refs, fail) ==
    IF alreadyCompiled(c) THEN Untouched(c, ErrAlreadyCompiled)
    ELSE IF ~dir.readable THEN Untouched(c, "open error")
    ELSE LET paths == SelectSeq(dir.names, LAMBDA n : IsRuleExt(n.ext))
         IN  IF Len(paths) = 0 THEN Untouched(c, "no yara files")
             ELSE CompileFiles(c, target, paths, refs, fail)

\* func (c *Compiled) CompileFileOrDir(target, filenameNS, path)
CompileFileOrDir(c, target, path, refs, fail) ==
    IF alreadyCompiled(c) THEN Untouched(c, ErrAlreadyCompiled)
    ELSE IF path.stat = "error" THEN Untouched(c, "stat error")
    ELSE IF path.stat = "dir"
    THEN CompileDir(c, target, [readable |-> TRUE, names |-> path.names], refs,
                    fail)
    ELSE IF path.stat = "regular"
    THEN CompileFiles(c, target,
                      <<[kind |-> "regular", ext |-> path.ext,
                         incl |-> path.incl]>>, refs, fail)
    ELSE Untouched(c, "not a directory or a regular file")

\* Destroy releasing the rule set before the scanner
DestroyRulesFirst(c, rel) ==
    LET r1 == IF c.rules # 0 THEN Append(rel, <<"rules", c.rules>>) ELSE rel
        r2 == IF c.scanner # 0 THEN Append(r1, <<"scanner", c.scanner>>) ELSE r1
    IN  [scanner |-> 0, rules |-> 0, released |-> r2]

\* func (c *Compiled) Destroy(): the fields afterwards and the engine objects
\* destroyed, appended to rel
Destroy(c, rel) ==
    LET r1 == IF c.scanner # 0 THEN Append(rel, <<"scanner", c.scanner>>) ELSE rel
        r2 == IF c.rules # 0 THEN Append(r1, <<"rules", c.rules>>) ELSE r1
    IN  [scanner |-> 0, rules |-> 0, released |-> r2]

----------------------------------------------------------------------------
(* Spec: one Compiled instance and the calls made on it. *)

Compiled == [rules |-> rules, scanner |-> scanner, list |-> ListOf(heap, cvars)]

\* the instance after a compile operation gave res
Compile(name, target, src, incl, res) ==
    /\ res.rules = "new" => nobj < MaxObj
    /\ IF res.set
       THEN LET others == {dvars, snap} \ {0}
                r == NewRef(others)
            IN  /\ heap' = Collect([heap EXCEPT ![r] = res.list], others \cup {r})
                /\ cvars' = r
       ELSE UNCHANGED <<heap, cvars>>
    /\ rules' = CASE res.rules = "new" -> nobj + 1
                  [] res.rules = "nil" -> 0
                  [] OTHER -> rules
    /\ nobj' = IF res.rules = "new" THEN nobj + 1 ELSE nobj
    /\ op' = name
    /\ args' = [NoArgs EXCEPT !.target = target, !.src = src, !.incl = incl]
    /\ ret' = res.ret
    /\ defs' = res.defs
    /\ hooks' = <<>>
    /\ valued' = <<>>
    /\ val' = NilValue
    /\ UNCHANGED <<workers, owner>>
    /\ trace' = res.trace
    /\ sstate' = sstate
    /\ UNCHANGED <<dvars, snap, snapOf, scanner, released>>

\* ScanFile, ScanProcess, and a value that is neither
Targets == {ScanFile, ScanProcess, ScanProcess + 1}

\* where a compile operation can fail in the engine or the parser
Fails == {"None", "NewCompiler", "Parse", "Define", "Add", "GetRules"}

\* what the parser reports as referenced: [X, X, Y], X for processes only
RefLists == { <<VarProcessId, VarProcessId, VarOs>> }

Plain == [kind |-> "regular", ext |-> ".yar", incl |-> FALSE]
WithInclude == [kind |-> "regular", ext |-> ".YARA", incl |-> TRUE]
Folder == [kind |-> "dir", ext |-> ".yar", incl |-> FALSE]
Missing == [kind |-> "missing", ext |-> ".yar", incl |-> FALSE]
Text == [kind |-> "regular", ext |-> ".txt", incl |-> TRUE]
MixedCase == [kind |-> "regular", ext |-> ".Yar", incl |-> FALSE]

RuleLists == { <<>>, <<Plain>>, <<Plain, WithInclude>> }

PathLists == { <<Plain>>, <<Folder>>, <<Missing>>, <<Folder, WithInclude>> }

Dirs ==
    { [readable |-> FALSE, names |-> <<>>],
      [readable |-> TRUE, names |-> <<Text>>],
      [readable |-> TRUE, names |-> <<WithInclude, Text>>],
      [readable |-> TRUE, names |-> <<Folder>>],
      [readable |-> TRUE, names |-> <<MixedCase>>] }

Paths ==
    { [stat |-> "error", names |-> <<>>, ext |-> "", incl |-> FALSE],
      [stat |-> "other", names |-> <<>>, ext |-> "", incl |-> FALSE],
      [stat |-> "regular", names |-> <<>>, ext |-> ".txt", incl |-> FALSE],
      [stat |-> "regular", names |-> <<>>, ext |-> ".yar", incl |-> TRUE],
      [stat |-> "dir", names |-> <<Plain>>, ext |-> "", incl |-> FALSE],
      [stat |-> "dir", names |-> <<Text>>, ext |-> "", incl |-> FALSE] }

\* the rule sources a CompileFiles call reads: the regular files
Regular(paths) == SelectSeq(paths, LAMBDA n : n.kind = "regular")

\* the rule sources a CompileDir call reads
RuleFiles(names) == SelectSeq(names, LAMBDA n : n.kind = "regular" /\ IsRuleExt(n.ext))

\* c.CompileStrings(target, ruleNs) for a list of ruleLists
CallCompileStrings(ruleLists) ==
    \E target \in Targets, ruleNs \in ruleLists, refs \in RefLists, fail \in Fails :
        \E res \in {CompileStrings(Compiled, target, ruleNs, refs, fail)} :
            Compile("CompileStrings", target, ruleNs, ParserIncludes(ruleNs), res)

\* c.CompileString(target, rule, namespace) for a rule of rs
CallCompileString(rs) ==
    \E target \in Targets, rule \in rs, refs \in RefLists, fail \in Fails :
        \E res \in {CompileString(Compiled, target, rule, refs, fail)} :
            Compile("CompileString", target, rule, rule.incl, res)

\* c.CompileFiles(target, filenameNS, paths...) for a list of pathLists
CallCompileFiles(pathLists) ==
    \E target \in Targets, paths \in pathLists, refs \in RefLists, fail \in Fails :
        \E res \in {CompileFiles(Compiled, target, paths, refs, fail)} :
            Compile("CompileFiles", target, paths,
                    ParserIncludes(Regular(paths)), res)

\* c.CompileDir(target, filenameNS, dir) for a directory of dirs
CallCompileDir(dirs) ==
    \E target \in Targets, dir \in dirs, refs \in RefLists, fail \in Fails :
        \E res \in {CompileDir(Compiled, target, dir, refs, fail)} :
            Compile("CompileDir", target, dir,
                    ParserIncludes(RuleFiles(dir.names)), res)

\* c.CompileFileOrDir(target, filenameNS, path) for a path of ps
CallCompileFileOrDir(ps) ==
    \E target \in Targets, path \in ps, refs \in RefLists, fail \in Fails :
        \E res \in {CompileFileOrDir(Compiled, target, path, refs, fail)} :
            Compile("CompileFileOrDir", target, path,
                    IF path.stat = "dir"
                    THEN ParserIncludes(RuleFiles(path.names))
                    ELSE path.stat = "regular" /\ path.incl,
                    res)

\* func (c *Compiled) CreateScanner(): yara.NewScanner(c.rules) dereferences
\* the rule set, which panics for nil
CallCreateScanner ==
    /\ op' = "CreateScanner"
    /\ args' = NoArgs
    /\ defs' = <<>>
    /\ hooks' = <<>>
    /\ valued' = <<>>
    /\ val' = NilValue
    /\ UNCHANGED <<workers, owner>>
    /\ trace' = <<>>
    /\ \/ /\ rules = 0
          /\ ret' = "panic"
          /\ UNCHANGED <<scanner, nobj, sstate>>
       \/ /\ rules # 0
          /\ ret' = "scanner error"
          /\ UNCHANGED <<scanner, nobj, sstate>>
       \/ /\ rules # 0
          /\ nobj < MaxObj
          /\ ret' = NoError
          /\ scanner' = nobj + 1
          /\ nobj' = nobj + 1
          /\ sstate' = "new"
    /\ UNCHANGED <<heap, cvars, dvars, snap, snapOf, rules, released>>

\* c.Destroy()
CallDestroy ==
    LET d == Destroy(Compiled, released)
    IN  /\ scanner' = d.scanner
        /\ rules' = d.rules
        /\ released' = d.released
        /\ op' = "Destroy"
        /\ args' = NoArgs
        /\ ret' = NoError
        /\ defs' = <<>>
        /\ hooks' = <<>>
        /\ valued' = <<>>
        /\ val' = NilValue
        /\ UNCHANGED <<workers, owner>>
        /\ trace' = <<>>
        /\ sstate' = "none"
        /\ UNCHANGED <<heap, cvars, dvars, snap, snapOf, nobj>>

\* func (c *Compiled) DefineScannerVariables(sctx): the pass of c.vars over
\* c.scanner.  On a nil scanner the first DefineVariable call dereferences
\* nil; with an empty selector no call is made and the pass returns nil.
CallCompiledDefineScannerVariables(sCtx, rejectAt) ==
    LET r == DefineScannerVariables(ListOf(heap, cvars), sCtx,
                                    NewDefiner("scanner", rejectAt))
        missing == scanner = 0 /\ ListOf(heap, cvars) # <<>>
    IN  /\ op' = "Compiled.DefineScannerVariables"
        /\ args' = [NoArgs EXCEPT !.rejectAt = rejectAt, !.sctx = sCtx]
        /\ ret' = IF missing THEN "panic" ELSE r.err
        /\ defs' = IF scanner = 0 THEN <<>> ELSE r.def.log
        /\ hooks' = IF missing THEN <<>> ELSE r.hooks
        /\ valued' = IF missing THEN <<Head(ListOf(heap, cvars))>> ELSE r.valued
        /\ val' = NilValue
        /\ UNCHANGED <<workers, owner>>
        /\ trace' = <<>>
        /\ sstate' = IF scanner = 0 THEN sstate
                     ELSE IF r.err = NoError THEN "defined" ELSE "partial"
        /\ UNCHANGED <<heap, cvars, dvars, snap, snapOf, rules, scanner, nobj,
                       released>>

\* func (c *Compiled) SetCallback(cb): c.scanner.SetCallback(cb) writes into
\* the scanner, which panics for nil
CallSetCallback ==
    /\ op' = "SetCallback"
    /\ args' = NoArgs
    /\ ret' = IF scanner = 0 THEN "panic" ELSE NoError
    /\ defs' = <<>>
    /\ hooks' = <<>>
    /\ valued' = <<>>
    /\ val' = NilValue
    /\ UNCHANGED <<workers, owner>>
    /\ trace' = <<>>
    /\ UNCHANGED <<heap, cvars, dvars, snap, snapOf, rules, scanner, nobj,
                   released, sstate>>

\* c.ScanFile(filename), c.ScanFileDescriptor(fd), c.ScanProc(pid): the call
\* goes to c.scanner as it is; it panics for nil, otherwise the engine runs
\* its match pass and returns err
Scan(name, err) ==
    /\ op' = name
    /\ args' = NoArgs
    /\ ret' = IF scanner = 0 THEN "panic" ELSE err
    /\ defs' = <<>>
    /\ hooks' = <<>>
    /\ valued' = <<>>
    /\ val' = NilValue
    /\ UNCHANGED <<workers, owner>>
    /\ trace' = <<>>
    /\ sstate' = IF scanner = 0 THEN sstate ELSE "scanned"
    /\ UNCHANGED <<heap, cvars, dvars, snap, snapOf, rules, scanner, nobj,
                   released>>

ScanErrors == {NoError, "scan error"}

\* func (c *Compiled) ScanFile(filename)
CallScanFile == \E err \in ScanErrors : Scan("ScanFile", err)

\* func (c *Compiled) ScanFileDescriptor(fd)
CallScanFileDescriptor == \E err \in ScanErrors : Scan("ScanFileDescriptor", err)

\* func (c *Compiled) ScanProc(pid)
CallScanProc == \E err \in ScanErrors : Scan("ScanProc", err)

\* the life of an instance: compiling plain sources, scanners, scans, Destroy
Next ==
    \/ CallCompileStrings({<<Plain>>})
    \/ CallCompileString({Plain})
    \/ CallCompileFiles({<<Plain>>})
    \/ CallCompileDir({[readable |-> TRUE, names |-> <<Plain>>]})
    \/ CallCompileFileOrDir({[stat |-> "regular", names |-> <<>>, ext |-> ".yar",
                              incl |-> FALSE]})
    \/ CallCreateScanner
    \/ \E sCtx \in ScanContexts(ListOf(heap, cvars)) : \E k \in 0..1 :
          CallCompiledDefineScannerVariables(sCtx, k)
    \/ CallSetCallback
    \/ CallScanFile
    \/ CallScanFileDescriptor
    \/ CallScanProc
    \/ CallDestroy

Spec == Init /\ [][Next]_vars

\* compiling every kind of source on one instance, and its scanners
NextCompile ==
    \/ CallCompileStrings(RuleLists)
    \/ CallCompileString({Plain, WithInclude})
    \/ CallCompileFiles(PathLists)
    \/ CallCompileDir(Dirs)
    \/ CallCompileFileOrDir(Paths)
    \/ CallCreateScanner

SpecCompile == Init /\ [][NextCompile]_vars

----------------------------------------------------------------------------
(* SpecValue: the accessors of an identifier and the file extension routine *)
(* called with every identifier value and every short path.                 *)

\* a call that returns value and changes nothing
Returns(name, a, value) ==
    /\ op' = name
    /\ args' = a
    /\ ret' = NoError
    /\ val' = value
    /\ UNCHANGED <<workers, owner>>
    /\ defs' = <<>>
    /\ hooks' = <<>>
    /\ valued' = <<>>
    /\ trace' = <<>>
    /\ UNCHANGED <<heap, cvars, dvars, snap, snapOf, rules, scanner, nobj,
                   released, sstate>>

\* v.String()
CallString(v) == Returns("String", [NoArgs EXCEPT !.vid = v], String(v))

\* v.Meta()
CallMeta(v) == Returns("Meta", [NoArgs EXCEPT !.vid = v], Meta(v))

\* Valuers[VarFileExtension].Value(sCtx) with sCtx.FilePath() = path
CallVarFileExtension(path) ==
    Returns("varFileExtensionFunc", [NoArgs EXCEPT !.path = path],
            varFileExtensionFunc(path))

FilePaths == BoundedSeq(Chars, MaxPath)

NextValue ==
    \/ \E v \in VariableType : CallString(v)
    \/ \E v \in VariableType : CallMeta(v)
    \/ \E path \in FilePaths : CallVarFileExtension(path)
    \/ \E v \in VariableType : CallDefineDefaultValue(v, 0)

SpecValue == Init /\ [][NextValue]_vars

----------------------------------------------------------------------------
(* What the registry documents: the Type column of the table that declares  *)
(* the identifiers, and the applicability bit of an identifier.             *)

StringVars ==
    {VarOs, VarFilePath, VarFileName, VarFileExtension, VarProcessUserName,
     VarProcessUserSid, VarProcessName, VarProcessPath, VarProcessCommandLine}

IntegerVars ==
    {VarTimeNow, VarFileModifiedTime, VarFileAccessedTime, VarFileChangedTime,
     VarFileBirthTime, VarProcessId, VarProcessParentId, VarProcessSessionId}

\* the Default column: "", 0 or false
ZeroValueOf(vid) ==
    IF vid \in StringVars THEN ZeroString
    ELSE IF vid \in IntegerVars THEN ZeroInt
    ELSE ZeroBool

ValidIds == 1..(typeEnd - 1)

\* vid is a valid identifier whose metadata has the bit of the target mask
Applies(vid, mask) == vid \in ValidIds /\ (varMetas[vid] \div mask) % 2 = 1

\* the elements of s at the positions of keep, in ascending position order
Pick(s, keep) ==
    [k \in 1..Cardinality(keep) |->
        s[CHOOSE i \in keep : Cardinality({j \in keep : j < i}) = k - 1]]

\* s reduced to the applicable identifiers, each at its first occurrence
FirstApplicable(s, mask) ==
    Pick(s, {i \in DOMAIN s :
                Applies(s[i], mask) /\ \A j \in 1..(i - 1) : s[j] # s[i]})

Selector == ListOf(heap, cvars)

----------------------------------------------------------------------------
(* Claims about the selector and the scanner pass. *)

\* C5: whenever DefineScannerVariables returns nil, the acceptor has received
\* exactly one DefineVariable call per identifier of the selector, in selector
\* order and under the canonical name: the computed value where the routine
\* succeeded with a non-nil value, the zero value of the type otherwise.
C5_EverySelectedDefined ==
    (op = "DefineScannerVariables" /\ ret = NoError) =>
        /\ Len(defs) = Len(Selector)
        /\ \A i \in DOMAIN Selector :
              LET vid == Selector[i]
                  out == args.sctx.value[vid]
              IN  defs[i] = <<varNames[vid],
                              IF out.err = NoError /\ out.value # NilValue
                              THEN out.value ELSE ZeroValueOf(vid)>>

\* a pass that returned nil after one routine failed (hook suppressed it), one
\* returned a value and one returned (nil, nil)
C5_Witness ==
    /\ op = "DefineScannerVariables"
    /\ ret = NoError
    /\ Selector = <<VarProcessUserName, VarProcessId, VarFileReadonly>>
    /\ args.sctx.value[VarProcessUserName].err = ValueError
    /\ args.sctx.value[VarProcessId].value = "int64:7"
    /\ args.sctx.value[VarFileReadonly].value = NilValue
    /\ defs = << <<"process_user_name", ZeroString>>, <<"process_id", "int64:7">>,
                 <<"file_readonly", ZeroBool>> >>

\* C6: when the routine of a selected identifier returns an error and the
\* acceptor accepts the default, the acceptor receives the zero value of the
\* identifier's type under its canonical name and HandleValueError is invoked
\* exactly once for it, after the default was defined, with that acceptor,
\* that identifier and the original error.
C6_FailureDefaultsThenHook ==
    op = "DefineScannerVariables" =>
        \A i \in DOMAIN Selector :
            LET vid == Selector[i]
                out == args.sctx.value[vid]
                calls == {k \in DOMAIN hooks : hooks[k].vid = vid}
            IN  (out.err # NoError /\ Len(defs) >= i /\ args.rejectAt # i) =>
                    /\ defs[i] = <<varNames[vid], ZeroValueOf(vid)>>
                    /\ Cardinality(calls) = 1
                    /\ \A k \in calls :
                          hooks[k] = [def |-> "scanner", vid |-> vid,
                                      err |-> out.err, ndefs |-> i]

\* the routine of a string-typed identifier failed after an earlier
\* identifier was defined; the empty string was defined and the hook called
C6_Witness ==
    /\ op = "DefineScannerVariables"
    /\ \E i \in DOMAIN Selector :
          /\ Selector[i] = VarProcessUserName
          /\ args.sctx.value[VarProcessUserName].err = ValueError
          /\ i > 1
          /\ args.rejectAt # i
          /\ Len(defs) >= i
          /\ defs[i] = <<"process_user_name", "string:">>
          /\ \E k \in DOMAIN hooks : hooks[k].vid = VarProcessUserName

\* C7 as stated: when a routine returns (nil, nil), the acceptor receives the
\* zero value of the identifier's type, HandleValueError is not invoked for
\* that identifier, and resolution continues with the next identifier.
C7_NilContinues ==
    op = "DefineScannerVariables" =>
        \A i \in DOMAIN Selector :
            LET vid == Selector[i]
                out == args.sctx.value[vid]
            IN  (out.err = NoError /\ out.value = NilValue /\ Len(defs) >= i) =>
                    /\ defs[i] = <<varNames[vid], ZeroValueOf(vid)>>
                    /\ \A k \in DOMAIN hooks : hooks[k].vid # vid
                    /\ i < Len(Selector) => Len(defs) >= i + 1

\* C7 amended: when a routine returns (nil, nil), the acceptor receives the
\* zero value of the identifier's type and HandleValueError is not invoked for
\* that identifier; resolution continues with the next identifier provided
\* the acceptor accepts that default definition.
C7_NilContinuesIfAccepted ==
    op = "DefineScannerVariables" =>
        \A i \in DOMAIN Selector :
            LET vid == Selector[i]
                out == args.sctx.value[vid]
            IN  (out.err = NoError /\ out.value = NilValue /\ Len(defs) >= i) =>
                    /\ defs[i] = <<varNames[vid], ZeroValueOf(vid)>>
                    /\ \A k \in DOMAIN hooks : hooks[k].vid # vid
                    /\ (i < Len(Selector) /\ args.rejectAt # i) =>
                           Len(defs) >= i + 1

\* (nil, nil) for the first identifier, default accepted, the routine of the
\* next identifier failed and was handled
C7_Witness ==
    /\ op = "DefineScannerVariables"
    /\ Selector = <<VarFileReadonly, VarProcessUserName>>
    /\ args.sctx.value[VarFileReadonly] = [value |-> NilValue, err |-> NoError]
    /\ args.sctx.value[VarProcessUserName].err = ValueError
    /\ args.rejectAt = 0
    /\ Len(defs) = Len(Selector)
    /\ defs[1] = <<"file_readonly", "bool:false">>
    /\ Len(hooks) = 1

\* C8: InitFileVariables / InitProcessVariables replace the selector with the
\* input list reduced to the identifiers whose metadata intersects the target
\* mask, each kept once at the position of its first occurrence in the input.
C8_FilterDedupInputOrder ==
    /\ op = "InitFileVariables" => Selector = FirstApplicable(args.list, MetaFile)
    /\ op = "InitProcessVariables" =>
           Selector = FirstApplicable(args.list, MetaProcess)

\* [X, X, Y] with X process-only and Y file+process, built for the process
\* target: [X, Y], input order and not registry order
C8_Witness ==
    /\ op = "InitProcessVariables"
    /\ args.list = <<VarProcessId, VarProcessId, VarOs>>
    /\ Selector = <<VarProcessId, VarOs>>

----------------------------------------------------------------------------
(* Claims about List, Copy and Variables. *)

\* C2: variables.List() returns exactly the valid identifiers 1..typeEnd-1,
\* each exactly once, in ascending registry order, and never contains the
\* reserved identifier 0.
C2_ListIsCatalogue ==
    (op = "List" /\ snapOf = "List") =>
        /\ ListOf(heap, snap) = ListAscending
        /\ \A i \in DOMAIN ListOf(heap, snap) : ListOf(heap, snap)[i] # 0

VContent == ListOf(heap, cvars)
DContent == ListOf(heap, dvars)

\* C9: after d := v.Copy(), d holds the same identifier sequence as v; no
\* later operation on d changes what v holds, no later operation on v changes
\* d, and writing into a slice returned by Variables() (or List()) never
\* changes a selector.
C9_CopyIndependent ==
    [][ /\ op' = "Copy" => (DContent' = VContent /\ VContent' = VContent)
        /\ (op' \in {"InitFileVariables", "InitProcessVariables"}
                /\ args'.on = "d") => VContent' = VContent
        /\ (op' \in {"InitFileVariables", "InitProcessVariables"}
                /\ args'.on = "v") => DContent' = DContent
        /\ op' = "Variables" =>
               /\ VContent' = VContent
               /\ DContent' = DContent
               /\ ListOf(heap', snap') =
                      (IF args'.on = "v" THEN VContent ELSE DContent)
        /\ op' \in {"MutateSlice", "List"} =>
               (VContent' = VContent /\ DContent' = DContent)
      ]_vars

\* a slice taken from the copy d was written to; v and d still hold what the
\* original held at copy time
C9_Witness ==
    /\ op = "MutateSlice"
    /\ snapOf = "d"
    /\ dvars # 0
    /\ VContent = <<VarProcessId, VarOs>>
    /\ DContent = <<VarProcessId, VarOs>>
    /\ ListOf(heap, snap) = <<0, VarOs>>

----------------------------------------------------------------------------
(* Claims about the compile operations and Destroy. *)

CompileOps ==
    {"CompileString", "CompileStrings", "CompileFiles", "CompileDir",
     "CompileFileOrDir"}

\* the mask InitFileVariables / InitProcessVariables filter by
TargetMask(target) == IF target = ScanProcess THEN MetaProcess ELSE MetaFile

\* a rule set was produced on the instance at some time
EverCompiled ==
    rules # 0 \/ \E i \in DOMAIN released : released[i][1] = "rules"

\* C1: on every compile path, if at least one rule source contains an include
\* directive, then after a successful compile the selector contains every
\* valid identifier (VarOs through VarProcessCommandLine) whose applicability
\* mask intersects the mask of the requested target.
C1_IncludeSelectsCatalogue ==
    (op \in CompileOps /\ ret = NoError /\ args.incl) =>
        \A vid \in ValidIds :
            Applies(vid, TargetMask(args.target)) =>
                \E i \in DOMAIN Selector : Selector[i] = vid

\* C3: if the instance already holds a compiled rule set, any compile
\* operation with any arguments returns ErrAlreadyCompiled and leaves the
\* rule set, the selector and the scanner as they were before the call.
C3_AlreadyCompiledRejected ==
    [][ (rules # 0 /\ op' \in CompileOps) =>
            /\ ret' = ErrAlreadyCompiled
            /\ rules' = rules
            /\ scanner' = scanner
            /\ Selector' = Selector
            /\ nobj' = nobj
      ]_vars

\* an instance compiled for the file target and holding a scanner rejected
\* CompileDir called with an invalid target and a source with an include
C3_Witness ==
    /\ op = "CompileDir"
    /\ ret = ErrAlreadyCompiled
    /\ args.target = ScanProcess + 1
    /\ args.incl
    /\ rules # 0
    /\ scanner # 0
    /\ Selector = <<VarOs>>

\* C4: once a compile call has succeeded on an instance, every later compile
\* call on that instance fails, in every later lifecycle state of the
\* instance, including after Destroy has been called on it.
C4_NoRecompileEver ==
    [][ (EverCompiled /\ op' \in CompileOps) => ret' # NoError ]_vars

\* C10: Destroy releases the held scanner first and the held rule set second
\* and holds neither afterwards; no object is released twice over any number
\* of Destroy calls; Destroy on an instance that holds nothing (never
\* compiled, or already destroyed) releases nothing and changes nothing of
\* the instance.
C10_DestroyScannerThenRulesOnce ==
    [][ op' = "Destroy" =>
            /\ released' =
                   released
                   \o (IF scanner # 0 THEN << <<"scanner", scanner>> >> ELSE <<>>)
                   \o (IF rules # 0 THEN << <<"rules", rules>> >> ELSE <<>>)
            /\ rules' = 0
            /\ scanner' = 0
            /\ \A i, j \in DOMAIN released' :
                   released'[i] = released'[j] => i = j
            /\ (rules = 0 /\ scanner = 0) =>
                   /\ released' = released
                   /\ Selector' = Selector
            /\ ~EverCompiled => released' = <<>>
      ]_vars

\* Destroy on an instance that held rule set 1 and scanner 2, then Destroy
\* again: the scanner was released before the rule set, each once
C10_Witness ==
    /\ op = "Destroy"
    /\ rules = 0
    /\ scanner = 0
    /\ released = << <<"scanner", 2>>, <<"rules", 1>> >>

----------------------------------------------------------------------------
(* Claims about failing passes. *)

\* what the pass defines for the i-th identifier of the selector when the
\* acceptor takes it
Defined(i) ==
    LET vid == Selector[i]
        out == args.sctx.value[vid]
    IN  <<varNames[vid],
          IF out.err = NoError /\ out.value # NilValue
          THEN out.value ELSE ZeroValueOf(vid)>>

\* C15: in DefineScannerVariables, if HandleValueError returns an error for an
\* identifier, resolution stops at once and returns that error: no identifier
\* later in the selector is computed or defined, and the definitions made for
\* the earlier identifiers and the default of the failing one stay in the
\* acceptor.
C15_HookErrorStops ==
    op = "DefineScannerVariables" =>
        \A i \in DOMAIN Selector :
            ((\E k \in DOMAIN hooks : hooks[k].vid = Selector[i])
                /\ Selector[i] \in args.sctx.fatal) =>
                    /\ ret = HookError
                    /\ valued = SubSeq(Selector, 1, i)
                    /\ Len(defs) = i
                    /\ \A j \in 1..i : defs[j] = Defined(j)
                    /\ hooks[Len(hooks)].vid = Selector[i]

\* the hook failed for the second of three identifiers: the first keeps its
\* computed value, the second its default, the third was not touched
C15_Witness ==
    /\ op = "DefineScannerVariables"
    /\ Selector = <<VarProcessId, VarProcessUserName, VarFileReadonly>>
    /\ args.sctx.fatal = {VarProcessUserName}
    /\ ret = HookError
    /\ valued = <<VarProcessId, VarProcessUserName>>
    /\ defs = << <<"process_id", "int64:7">>, <<"process_user_name", ZeroString>> >>

\* C16: DefineCompilerVariables defines, in selector order, the zero value of
\* each identifier's type under its canonical name; on the first acceptor
\* error it returns that error at once, identifiers after the failing one are
\* never defined and the definitions made before it stay; an identifier whose
\* metadata has none of the four type bits yields "unknown variable" without
\* any DefineVariable call for it.
C16_CompilerDefaultsFailFast ==
    /\ op = "DefineCompilerVariables" =>
           LET n == IF args.rejectAt \in DOMAIN Selector
                    THEN args.rejectAt ELSE Len(Selector)
           IN  /\ ret = (IF args.rejectAt \in DOMAIN Selector
                         THEN DefineError ELSE NoError)
               /\ Len(defs) = n
               /\ \A i \in 1..n :
                      defs[i] = <<varNames[Selector[i]], ZeroValueOf(Selector[i])>>
    /\ op = "defineDefaultValue" =>
           IF Meta(args.vid) % (2 * MetaString) = 0
           THEN ret = UnknownVariable /\ defs = <<>>
           ELSE /\ defs = << <<varNames[args.vid], ZeroValueOf(args.vid)>> >>
                /\ ret = (IF args.rejectAt = 1 THEN DefineError ELSE NoError)

\* the compiler rejected the second of three definitions: a string default
\* stays, the integer default was the rejected call, the boolean never came
C16_Witness ==
    /\ op = "DefineCompilerVariables"
    /\ Selector = <<VarProcessUserName, VarProcessId, VarFileReadonly>>
    /\ args.rejectAt = 2
    /\ ret = DefineError
    /\ defs = << <<"process_user_name", "string:">>, <<"process_id", "int64:0">> >>

\* C17: in DefineScannerVariables an acceptor rejection is fatal to the pass.
\* If defining the fallback default fails, the failure is returned at once,
\* carrying the original computation error when there was one, the hook is
\* not invoked for that identifier and no later identifier is processed; if
\* defining a computed non-nil value fails, that error is returned at once
\* and no later identifier is processed.
C17_RejectionIsFatal ==
    (op = "DefineScannerVariables" /\ args.rejectAt \in 1..Len(defs)) =>
        LET k == args.rejectAt
            out == args.sctx.value[Selector[k]]
        IN  /\ Len(defs) = k
            /\ defs[k] = Defined(k)
            /\ valued = SubSeq(Selector, 1, k)
            /\ \A h \in DOMAIN hooks : hooks[h].vid # Selector[k]
            /\ ret = (IF out.err # NoError
                      THEN "value error: define rejected" ELSE DefineError)

\* the routine of the first of three identifiers failed and the scanner
\* rejected its default: both errors come back, no hook call, nothing later
C17_Witness ==
    /\ op = "DefineScannerVariables"
    /\ Selector = <<VarProcessUserName, VarProcessId, VarFileReadonly>>
    /\ args.sctx.value[VarProcessUserName].err = ValueError
    /\ args.rejectAt = 1
    /\ ret = "value error: define rejected"
    /\ defs = << <<"process_user_name", ZeroString>> >>
    /\ valued = <<VarProcessUserName>>
    /\ hooks = <<>>

----------------------------------------------------------------------------
(* Claims about the accessors and the file routines. *)

\* the last element of a cleaned path
BaseName(path) ==
    LET els == Elements(path, 1, <<>>) IN els[Len(els)]

\* C13: the file-extension routine returns the part of the base name after
\* its last dot, without the dot; the empty string when the base name has no
\* dot and for every path whose base name starts with a dot and contains
\* exactly one dot, whether the path is the bare name or has leading
\* directory components.
C13_ExtensionOfBaseName ==
    op = "varFileExtensionFunc" =>
        LET base == BaseName(Clean(args.path))
            dots == {i \in DOMAIN base : base[i] = Dot}
            last == CHOOSE i \in dots : \A j \in dots : j <= i
        IN  val = (IF dots = {} \/ dots = {1} THEN <<>>
                   ELSE SubSeq(base, last + 1, Len(base)))

\* C14: for every value v of VariableType, v.String() and v.Meta() are the
\* registry entries, a non-empty name and non-zero metadata, when
\* 1 <= v < typeEnd, and the empty string and 0 for v = 0 and v >= typeEnd.
C14_AccessorsTotal ==
    /\ op = "String" =>
           IF args.vid \in 1..(typeEnd - 1)
           THEN val = varNames[args.vid] /\ val # ""
           ELSE val = ""
    /\ op = "Meta" =>
           IF args.vid \in 1..(typeEnd - 1)
           THEN val = varMetas[args.vid] /\ val # 0
           ELSE val = 0

\* Meta() of the largest byte value: 0, outside the registry arrays
C14_Witness ==
    /\ op = "Meta"
    /\ args.vid = 255
    /\ val = 0

----------------------------------------------------------------------------
(* Claims about the steps of a compile operation. *)

\* the spellings of the two rule-file extensions among the entries met here
RuleSpellings == {".yar", ".Yar", ".yara", ".YARA"}

\* C12: CompileDir passes to compilation exactly the directory entries whose
\* extension is .yar or .yara in any letter case, in directory order; when no
\* entry matches it fails with the no-rule-files error, creates no compiler
\* and leaves the instance without rule set and with its selector unchanged.
C12_DirFiltersByExtension ==
    [][ (op' = "CompileDir" /\ rules = 0 /\ args'.src.readable) =>
            LET matching == SelectSeq(args'.src.names,
                                      LAMBDA n : n.ext \in RuleSpellings)
            IN  IF matching = <<>>
                THEN /\ ret' = "no yara files"
                     /\ trace' = <<>>
                     /\ rules' = 0
                     /\ nobj' = nobj
                     /\ Selector' = Selector
                ELSE /\ Len(trace') > 0
                     /\ trace'[1] = <<"CompileFiles", matching>>
      ]_vars

\* a directory with a rule file spelled .YARA and a text file: only the rule
\* file was handed to CompileFiles, and the instance is compiled
C12_Witness ==
    /\ op = "CompileDir"
    /\ args.src = [readable |-> TRUE, names |-> <<WithInclude, Text>>]
    /\ ret = NoError
    /\ rules # 0
    /\ trace[1] = <<"CompileFiles", <<WithInclude>> >>

\* the position of a call in the order parse, define, add, finalize
StepRank(call) ==
    CASE call[1] \in {"CompileFiles", "NewCompiler"} -> 0
      [] call[1] \in {"Open", "Parse"} -> 1
      [] call[1] = "DefineVariable" -> 2
      [] call[1] \in {"AddString", "AddFile"} -> 3
      [] OTHER -> 4

\* the names defined into the compiler, in order
DefinedNames ==
    LET d == SelectSeq(trace, LAMBDA call : call[1] = "DefineVariable")
    IN  [i \in DOMAIN d |-> d[i][2]]

\* C19: in every compile operation the calls come in the order parse all
\* sources, define a default for every selected identifier, add the rule
\* sources, finalize; no rule source is added before every identifier of the
\* selector was defined, and when an instance is compiled the names defined
\* into its compiler are the canonical names of the selector it holds.
C19_CompileStepOrder ==
    op \in CompileOps =>
        /\ \A i, j \in DOMAIN trace :
               i < j => StepRank(trace[i]) <= StepRank(trace[j])
        /\ (\E i \in DOMAIN trace : StepRank(trace[i]) = 3) =>
               DefinedNames = [i \in DOMAIN Selector |-> varNames[Selector[i]]]
        /\ (ret = NoError /\ rules # 0) =>
               /\ DefinedNames = [i \in DOMAIN Selector |-> varNames[Selector[i]]]
               /\ trace[Len(trace)] = <<"GetRules">>

\* a rule text compiled for the process target: parsed, the two selected
\* identifiers defined, the text added, the rule set finalized
C19_Witness ==
    /\ op = "CompileStrings"
    /\ ret = NoError
    /\ rules # 0
    /\ args.target = ScanProcess
    /\ Selector = <<VarProcessId, VarOs>>
    /\ trace = << <<"NewCompiler">>, <<"Parse", Plain>>,
                  <<"DefineVariable", "process_id", ZeroInt>>,
                  <<"DefineVariable", "os", ZeroString>>,
                  <<"AddString", Plain>>, <<"GetRules">> >>

----------------------------------------------------------------------------
(* Claims about scanners and scans. *)

ScanOps == {"ScanFile", "ScanFileDescriptor", "ScanProc"}

ScannerOps == ScanOps \cup {"Compiled.DefineScannerVariables", "SetCallback"}

\* C11: every engine match pass started through ScanFile, ScanFileDescriptor
\* or ScanProc is immediately preceded by a pass that defined the computed
\* values into the scanner: no scan reaches the engine unless
\* DefineScannerVariables has run on that scanner since its creation and
\* since the previous scan.
C11_ScanAfterDefine ==
    [][ (op' \in ScanOps /\ scanner # 0) => sstate = "defined" ]_vars

\* C18: CreateScanner called without a compiled rule set, and
\* DefineScannerVariables, SetCallback, ScanFile, ScanFileDescriptor and
\* ScanProc called without a held scanner (uninitialized, compiled without
\* scanner, destroyed), do not succeed.
C18_WrongStateRejected ==
    [][ ((op' = "CreateScanner" /\ rules = 0)
            \/ (op' \in ScannerOps /\ scanner = 0)) => ret' # NoError ]_vars

\* C20: every scanner created by a successful CreateScanner call is released:
\* after Destroy no engine object created on the instance is left unreleased.
C20_NoScannerLeftBehind ==
    op = "Destroy" =>
        \A id \in 1..nobj : \E i \in DOMAIN released : released[i][2] = id

----------------------------------------------------------------------------
(* Claims about the registry metadata. *)

\* the bits of the set bs that the metadata m has
BitsOf(m, bs) == {b \in bs : (m \div b) % 2 = 1}

\* C22: every valid identifier has exactly one of the four value-type bits
\* and at least one applicability bit in its metadata, and defineDefaultValue
\* does not return the "unknown variable" error for an identifier a selector
\* can contain (one whose metadata has an applicability bit).
C22_OneTypeBit ==
    /\ (op = "Meta" /\ args.vid \in 1..(typeEnd - 1)) =>
           /\ Cardinality(BitsOf(val, {MetaBool, MetaInt, MetaFloat, MetaString})) = 1
           /\ BitsOf(val, {MetaFile, MetaProcess}) # {}
    /\ (op = "defineDefaultValue"
            /\ BitsOf(Meta(args.vid), {MetaFile, MetaProcess}) # {}) =>
           /\ ret = NoError
           /\ Len(defs) = 1

\* the default of the last registered identifier, a process-only string
C22_Witness ==
    /\ op = "defineDefaultValue"
    /\ args.vid = VarProcessCommandLine
    /\ ret = NoError
    /\ defs = << <<"process_command_line", ZeroString>> >>

----------------------------------------------------------------------------
(* Claims about failed and empty compilations. *)

\* the events of the last compile operation with the given name
Events(name) == {i \in DOMAIN trace : trace[i][1] = name}

\* C24: whenever CompileDir returns success, at least one rule file was
\* added to the compiler.
C24_SuccessAddsAFile ==
    (op = "CompileDir" /\ ret = NoError) => Events("AddFile") # {}

\* CompileDir of a folder whose only rule-named entry is a subdirectory:
\* the entry is opened, nothing is parsed or added, and the instance holds
\* a rule set
C24_EmptyRuleSet ==
    /\ op = "CompileDir"
    /\ ret = NoError
    /\ args.src.names = <<Folder>>
    /\ Events("Open") # {}
    /\ Events("Parse") = {}
    /\ Events("AddFile") = {}
    /\ Events("GetRules") # {}
    /\ rules # 0

\* a compile operation returned an error other than ErrAlreadyCompiled
CompileFailed ==
    op \in CompileOps /\ ret \notin {NoError, ErrAlreadyCompiled}

\* C23: a compile call that fails for a reason other than already-compiled
\* leaves the instance without a rule set, the next compile call is not
\* rejected with ErrAlreadyCompiled, and a call with an invalid scan target
\* leaves the selector as it was.
C23_FailedCompileLeavesUninitialized ==
    [][ /\ CompileFailed' => rules' = 0
        /\ (CompileFailed /\ op' \in CompileOps) => ret' # ErrAlreadyCompiled
        /\ (op' \in CompileOps /\ ret' = "invalid scan target") =>
               Selector' = Selector ]_vars

\* an invalid scan target on an instance whose earlier compile failed after
\* it had set the selector: no rule set, the selector still in place
C23_Witness ==
    /\ op \in CompileOps
    /\ ret = "invalid scan target"
    /\ args.target = ScanProcess + 1
    /\ rules = 0
    /\ Selector = <<VarProcessId, VarOs>>

----------------------------------------------------------------------------
(* SpecWorkers: scanner threads that each run DefineScannerVariables on     *)
(* their own Copy() of the original selector, one identifier per step,      *)
(* while the owning thread rebuilds the original with setVariables, one     *)
(* loop iteration per step.  Copy() is called on the owning thread, between *)
(* its rebuilds.                                                            *)

\* the arrays the workers' selectors refer to
WorkerRefs == {workers[w].sel : w \in Workers} \ {0}

\* d := v.Copy() for the worker w
WorkerCopy(w) ==
    /\ owner.pc = "idle"
    /\ workers[w].pc = "none"
    /\ LET c == Copy(heap, cvars, ({cvars} \cup WorkerRefs) \ {0})
       IN  /\ heap' = c.heap
           /\ workers' = [workers EXCEPT ![w] =
                             [NoWorker EXCEPT !.pc = "ready", !.sel = c.ref,
                                              !.at = ListOf(heap, cvars)]]
    /\ UNCHANGED <<cvars, dvars, snap, snapOf, rules, scanner, nobj, released,
                   op, args, ret, defs, hooks, valued, val, trace, sstate,
                   owner>>

\* the worker w calls d.DefineScannerVariables(sCtx, scanner) with its own
\* scanner, which rejects its rejectAt-th definition
WorkerBegin(w, sCtx, rejectAt) ==
    /\ workers[w].pc = "ready"
    /\ workers' = [workers EXCEPT ![w] =
                      [@ EXCEPT !.pc = "running", !.pos = 1, !.sctx = sCtx,
                                !.rejectAt = rejectAt,
                                !.def = NewDefiner(w, rejectAt)]]
    /\ UNCHANGED <<heap, cvars, dvars, snap, snapOf, rules, scanner, nobj,
                   released, op, args, ret, defs, hooks, valued, val, trace,
                   sstate, owner>>

\* one iteration of for _, vid := range vr.list in the pass of the worker w,
\* or its return nil after the last one
WorkerStep(w) ==
    LET me == workers[w]
        list == ListOf(heap, me.sel)
    IN  /\ me.pc = "running"
        /\ IF me.pos > Len(list)
           THEN workers' = [workers EXCEPT ![w] = [@ EXCEPT !.pc = "done"]]
           ELSE LET r == DefineScannerVariablesLoop(<<list[me.pos]>>, 1, me.sctx,
                                                    me.def, me.hooks, <<>>)
                    shared == \/ me.sel = cvars
                              \/ \E x \in Workers \ {w} : workers[x].sel = me.sel
                IN  workers' = [workers EXCEPT ![w] =
                                   [@ EXCEPT !.def = r.def, !.hooks = r.hooks,
                                             !.err = r.err,
                                             !.foreign = @ \/ shared,
                                             !.pos = IF r.err = NoError
                                                     THEN @ + 1 ELSE @,
                                             !.pc = IF r.err = NoError
                                                    THEN "running" ELSE "done"]]
        /\ UNCHANGED <<heap, cvars, dvars, snap, snapOf, rules, scanner, nobj,
                       released, op, args, ret, defs, hooks, valued, val, trace,
                       sstate, owner>>

\* the owner calls setVariables(vs, metaMask) on the original:
\* vr.list = []VariableType{} and the empty vmap
OwnerBegin(vs, metaMask) ==
    /\ owner.pc = "idle"
    /\ LET r == NewRef(WorkerRefs)
       IN  /\ heap' = Collect([heap EXCEPT ![r] = <<>>], WorkerRefs \cup {r})
           /\ cvars' = r
    /\ owner' = [pc |-> "rebuilding", vs |-> vs, i |-> 1, metaMask |-> metaMask,
                 vmap |-> {}]
    /\ UNCHANGED <<dvars, snap, snapOf, rules, scanner, nobj, released, op,
                   args, ret, defs, hooks, valued, val, trace, sstate, workers>>

\* one iteration of for _, vid := range vars in setVariables, or its return
OwnerStep ==
    /\ owner.pc = "rebuilding"
    /\ IF owner.i > Len(owner.vs)
       THEN /\ owner' = IdleOwner
            /\ heap' = heap
       ELSE LET vid == owner.vs[owner.i]
                take == /\ vid \notin owner.vmap
                        /\ BitAnd(Meta(vid), owner.metaMask) # 0
            IN  /\ heap' = IF take THEN [heap EXCEPT ![cvars] = Append(@, vid)]
                           ELSE heap
                /\ owner' = [owner EXCEPT !.i = @ + 1,
                                          !.vmap = IF take THEN @ \cup {vid}
                                                   ELSE @]
    /\ UNCHANGED <<cvars, dvars, snap, snapOf, rules, scanner, nobj, released,
                   op, args, ret, defs, hooks, valued, val, trace, sstate,
                   workers>>

\* the identifier lists the owner rebuilds the original from
OwnerLists == { <<VarProcessName, VarOs>>, <<VarOs, VarFileReadonly, VarOs>> }

\* the scans the workers run: the process name is found, or it is missing, or
\* its routine fails with and without the hook making that fatal
WorkerContexts ==
    {c \in ScanContexts(<<VarOs, VarProcessName, VarFileReadonly>>) :
        /\ c.value[VarOs].value = "string:x"
        /\ c.value[VarProcessName].value \in {"string:x", NilValue}
        /\ c.value[VarFileReadonly].value # ZeroBool
        /\ c.value[VarFileReadonly].value = NilValue
               <=> c.value[VarProcessName].err # NoError}

NextWorkers ==
    \/ \E w \in Workers : WorkerCopy(w)
    \/ \E w \in Workers, sCtx \in WorkerContexts, rejectAt \in {0, 2} :
           WorkerBegin(w, sCtx, rejectAt)
    \/ \E w \in Workers : WorkerStep(w)
    \/ \E vs \in OwnerLists, metaMask \in {MetaFile, MetaProcess} :
           OwnerBegin(vs, metaMask)
    \/ OwnerStep

SpecWorkers == Init /\ [][NextWorkers]_vars

\* C21: each worker's acceptor receives exactly the definitions a sequential
\* pass over the selector as it was at copy time produces (a running pass
\* has delivered a prefix of them), and no pass reads an array that the
\* original or another worker's selector refers to.
C21_WorkersIsolated ==
    \A w \in Workers :
        LET me == workers[w]
            seq == DefineScannerVariables(me.at, me.sctx,
                                          NewDefiner(w, me.rejectAt))
        IN  /\ me.pc = "done" =>
                   /\ me.def.log = seq.def.log
                   /\ me.hooks = seq.hooks
                   /\ me.err = seq.err
            /\ me.pc = "running" =>
                   /\ Len(me.def.log) <= Len(seq.def.log)
                   /\ me.def.log = SubSeq(seq.def.log, 1, Len(me.def.log))
            /\ ~me.foreign
            /\ me.pc # "none" =>
                   /\ me.sel # cvars
                   /\ \A x \in Workers \ {w} : workers[x].sel # me.sel

\* w1 finished the pass over the selector it copied, [process_name, os],
\* after the owner began to rebuild the original into another selector, and
\* w2, which copied a different selector, is in the middle of its pass
C21_Witness ==
    /\ workers["w1"].pc = "done"
    /\ workers["w1"].at = <<VarProcessName, VarOs>>
    /\ workers["w1"].def.log =
           << <<"process_name", ZeroString>>, <<"os", "string:x">> >>
    /\ Len(workers["w1"].hooks) = 1
    /\ workers["w2"].pc = "running"
    /\ workers["w2"].at = <<VarOs, VarFileReadonly>>
    /\ workers["w2"].pos = 2
    /\ owner.pc = "rebuilding"
    /\ Selector = <<VarProcessName>>

====
